---- MODULE Spec2Model ----
(***************************************************************************)
(* Model of the keystroke pattern analyzer of keyvide                      *)
(* (src/app/typing_analyzer.py) and of the module-level TypingAnalyzer     *)
(* instance that src/app/routes.py shares between requests.                *)
(*                                                                         *)
(* Number representation.  Python floats are modelled in fixed point:     *)
(* a real x is the integer floor(1000 * x) ("thousandths").  Timestamps   *)
(* are integer milliseconds, so an interval in seconds, in thousandths,   *)
(* is exactly the difference of the two timestamps.  Counts (keystrokes,  *)
(* pauses, bursts, slow phases) are plain integers.  A Python dict is a   *)
(* function with a set of strings as its domain; an event without a       *)
(* timestamp is a record without the field "timestamp".                   *)
(*                                                                         *)
(* A Python expression that can raise evaluates to an outcome              *)
(* [exc, val]: exc is the name of the exception, or NoException.           *)
(***************************************************************************)
EXTENDS Integers, Sequences, FiniteSets, TLC

VARIABLES
    analyzer,        \* fields of the shared TypingAnalyzer instance
    keystroke_data,  \* the caller's event list
    text_content,    \* text argument of the last call (list of characters)
    total_time,      \* total_time argument of the last call, thousandths of s
    result,          \* record returned by the last call
    stages,          \* private methods the last call ran, in order
    pc,              \* "typing" | "returned" | "repeated" | "raised"
    scorer_basic,    \* scorer alone: its basic_metrics argument
    scorer_patterns, \* scorer alone: its patterns argument
    scorer_moods     \* scorer alone: the dict _calculate_mood_scores returned

vars == <<analyzer, keystroke_data, text_content, total_time, result, stages, pc,
          scorer_basic, scorer_patterns, scorer_moods>>

scorer_vars == <<scorer_basic, scorer_patterns, scorer_moods>>

session_vars == <<analyzer, keystroke_data, text_content, total_time, result, stages, pc>>

---------------------------------------------------------------------------
(* Bounds and input samples *)

MaxEvents == 5

MaxBurstEvents == 6

MsPerSecond == 1000

\* One unit of a real number, in thousandths.
Unit == MsPerSecond

\* Events the client can append: a key and either a step of the clock in ms
\* (negative: a non-monotonic timestamp, 0: a repeated one) or no timestamp.
EventSamples ==
    { [key |-> "a", step |-> 500],  [key |-> "Backspace", step |-> 600],
      [key |-> "a", step |-> 2001], [key |-> "a", step |-> 0],
      [key |-> "a", step |-> -500], [key |-> "a"] }

\* (text, total_time) arguments of a call; the time is in thousandths of s.
CallSamples ==
    { [text |-> <<>>,             time |-> 2 * Unit],
      [text |-> <<"w", " ", "w">>, time |-> 2 * Unit],
      [text |-> <<"w", " ", "w">>, time |-> 0],
      [text |-> <<" ">>,          time |-> -1 * Unit] }

---------------------------------------------------------------------------
(* Python primitives *)

NoException == "none"

Ok(v) == [exc |-> NoException, val |-> v]

Raise(e) == [exc |-> e, val |-> 0]

\* a / b on reals in thousandths; ZeroDivisionError when b = 0
TrueDiv(a, b) == IF b = 0 THEN Raise("ZeroDivisionError") ELSE Ok((a * Unit) \div b)

\* d[k]: KeyError when k is not a key of d
Subscript(d, k) == IF k \in DOMAIN d THEN Ok(d[k]) ELSE Raise("KeyError")

\* d.get(k, default)
Get(d, k, default) == IF k \in DOMAIN d THEN d[k] ELSE default

\* {**a, **b}: the keys of both, b's value where both have the key
Merge(a, b) == [k \in DOMAIN a \cup DOMAIN b |-> IF k \in DOMAIN b THEN b[k] ELSE a[k]]

Max(a, b) == IF a >= b THEN a ELSE b

Min(a, b) == IF a <= b THEN a ELSE b

RECURSIVE Sum(_)
Sum(s) == IF s = <<>> THEN 0 ELSE Head(s) + Sum(Tail(s))

RECURSIVE SumSq(_)
SumSq(s) == IF s = <<>> THEN 0 ELSE Head(s) * Head(s) + SumSq(Tail(s))

\* statistics.mean: StatisticsError on an empty list
Mean(s) == IF s = <<>> THEN Raise("StatisticsError") ELSE Ok(Sum(s) \div Len(s))

\* floor of the square root of x >= 0, by bisection on [lo, hi]
RECURSIVE SqrtBetween(_, _, _)
SqrtBetween(x, lo, hi) ==
    IF lo >= hi THEN lo
    ELSE LET mid == (lo + hi + 1) \div 2
         IN  IF mid * mid <= x THEN SqrtBetween(x, mid, hi) ELSE SqrtBetween(x, lo, mid - 1)

ISqrt(x) == SqrtBetween(x, 0, 46340)

\* len(text.split()): the number of maximal runs of non-space characters
RECURSIVE SplitLen(_, _)
SplitLen(text, inWord) ==
    IF text = <<>> THEN 0
    ELSE IF Head(text) = " " THEN SplitLen(Tail(text), FALSE)
    ELSE (IF inWord THEN 0 ELSE 1) + SplitLen(Tail(text), TRUE)

\* text.split(' ') instead of text.split(): the empty text gives one (empty) word
WordsSplitOnSpace(text) == IF text = <<>> THEN 1 ELSE SplitLen(text, FALSE)

\* len(text_content.split())
Words(text) == SplitLen(text, FALSE)

---------------------------------------------------------------------------
(* TypingAnalyzer *)

\* __init__: the thresholds (speeds in WPM, the pause in seconds)
TypingAnalyzer ==
    [ FAST_KEYSTROKE_THRESHOLD |-> 120,
      SLOW_KEYSTROKE_THRESHOLD |-> 30,
      LONG_PAUSE_THRESHOLD     |-> 2,
      BURST_MIN_SPEED          |-> 100,
      BURST_MIN_DURATION       |-> 3 ]

_get_default_analysis ==
    [ total_keystrokes    |-> 0,
      backspace_count     |-> 0,
      avg_keystroke_speed |-> 0,
      correction_rate     |-> 0,
      pause_count         |-> 0,
      avg_pause_duration  |-> 0,
      burst_count         |-> 0,
      slow_phases         |-> 0,
      rhythm_consistency  |-> 50 * Unit,
      focus_score         |-> 50 * Unit,
      stress_score        |-> 50 * Unit,
      confidence_score    |-> 50 * Unit,
      dominant_mood       |-> "neutral" ]

\* sum(1 for event in keystroke_data if event.get('key') == 'Backspace')
RECURSIVE CountBackspace(_)
CountBackspace(kd) ==
    IF kd = <<>> THEN 0
    ELSE (IF Get(Head(kd), "key", "None") = "Backspace" THEN 1 ELSE 0) + CountBackspace(Tail(kd))

_calculate_basic_metrics(kd, text, time) ==
    LET total_keystrokes == Len(kd)
        backspace_count  == CountBackspace(kd)
        words            == Words(text)
        \* (words / total_time) * 60 if total_time > 0 else 0
        speed == IF time > 0 THEN TrueDiv(words * 60 * Unit, time) ELSE Ok(0)
        \* (backspace_count / total_keystrokes * 100) if total_keystrokes > 0 else 0
        rate  == IF total_keystrokes > 0
                 THEN TrueDiv(backspace_count * 100 * Unit, total_keystrokes * Unit)
                 ELSE Ok(0)
    IN  IF speed.exc # NoException THEN Raise(speed.exc)
        ELSE IF rate.exc # NoException THEN Raise(rate.exc)
        ELSE Ok([ total_keystrokes    |-> total_keystrokes,
                  backspace_count     |-> backspace_count,
                  avg_keystroke_speed |-> speed.val,
                  correction_rate     |-> rate.val ])

\* 60 / interval without the test interval > 0
SpeedUnguarded(interval) == TrueDiv(60 * Unit, interval)

\* 60 / interval if interval > 0 else 0, the instantaneous speed in WPM
current_speed(interval) == IF interval > 0 THEN TrueDiv(60 * Unit, interval) ELSE Ok(0)

\* State of the loop of _analyze_typing_patterns before its first iteration.
LoopStart == [ intervals |-> <<>>, pauses |-> <<>>, bursts |-> <<>>,
               current_burst |-> <<>>, exc |-> NoException ]

\* `len(current_burst) > BURST_MIN_DURATION` when a slower interval closes a run
IntervalStepLongerRuns(self, st, interval, speed) ==
    IF speed.exc # NoException THEN [st EXCEPT !.exc = speed.exc]
    ELSE [st EXCEPT
            !.intervals = Append(@, interval),
            !.pauses = IF interval > self.LONG_PAUSE_THRESHOLD * Unit
                       THEN Append(@, interval) ELSE @,
            !.bursts = IF speed.val > self.BURST_MIN_SPEED * Unit THEN @
                       ELSE IF Len(st.current_burst) > self.BURST_MIN_DURATION
                            THEN Append(@, st.current_burst) ELSE @,
            !.current_burst = IF speed.val > self.BURST_MIN_SPEED * Unit
                              THEN Append(@, speed.val) ELSE <<>>]

\* `len(current_burst) >= BURST_MIN_DURATION - 1` when a slower interval closes a run
IntervalStepShorterRuns(self, st, interval, speed) ==
    IF speed.exc # NoException THEN [st EXCEPT !.exc = speed.exc]
    ELSE [st EXCEPT
            !.intervals = Append(@, interval),
            !.pauses = IF interval > self.LONG_PAUSE_THRESHOLD * Unit
                       THEN Append(@, interval) ELSE @,
            !.bursts = IF speed.val > self.BURST_MIN_SPEED * Unit THEN @
                       ELSE IF Len(st.current_burst) >= self.BURST_MIN_DURATION - 1
                            THEN Append(@, st.current_burst) ELSE @,
            !.current_burst = IF speed.val > self.BURST_MIN_SPEED * Unit
                              THEN Append(@, speed.val) ELSE <<>>]

\* `interval >= self.LONG_PAUSE_THRESHOLD`: an interval of exactly 2.0 s is a pause
IntervalStepPauseAtThreshold(self, st, interval, speed) ==
    IF speed.exc # NoException THEN [st EXCEPT !.exc = speed.exc]
    ELSE [st EXCEPT
            !.intervals = Append(@, interval),
            !.pauses = IF interval >= self.LONG_PAUSE_THRESHOLD * Unit
                       THEN Append(@, interval) ELSE @,
            !.bursts = IF speed.val > self.BURST_MIN_SPEED * Unit THEN @
                       ELSE IF Len(st.current_burst) >= self.BURST_MIN_DURATION
                            THEN Append(@, st.current_burst) ELSE @,
            !.current_burst = IF speed.val > self.BURST_MIN_SPEED * Unit
                              THEN Append(@, speed.val) ELSE <<>>]

\* The body of `if 'timestamp' in ... and 'timestamp' in ...` for the interval
\* between two events that carry the timestamps cur and prev.
IntervalStep(self, st, interval, speed) ==
    IF speed.exc # NoException THEN [st EXCEPT !.exc = speed.exc]
    ELSE [st EXCEPT
            !.intervals = Append(@, interval),
            !.pauses = IF interval > self.LONG_PAUSE_THRESHOLD * Unit
                       THEN Append(@, interval) ELSE @,
            !.bursts = IF speed.val > self.BURST_MIN_SPEED * Unit THEN @
                       ELSE IF Len(st.current_burst) >= self.BURST_MIN_DURATION
                            THEN Append(@, st.current_burst) ELSE @,
            !.current_burst = IF speed.val > self.BURST_MIN_SPEED * Unit
                              THEN Append(@, speed.val) ELSE <<>>]

\* keystroke_data[i]['timestamp'] - keystroke_data[i-1]['timestamp'] (in ms,
\* which is the interval in seconds, in thousandths)
TimestampDiff(cur, prev) ==
    IF cur.exc # NoException THEN Raise(cur.exc)
    ELSE IF prev.exc # NoException THEN Raise(prev.exc)
    ELSE Ok(cur.val - prev.val)

IntervalOrRaise(self, st, interval) ==
    IF interval.exc # NoException THEN [st EXCEPT !.exc = interval.exc]
    ELSE IntervalStep(self, st, interval.val, current_speed(interval.val))

\* Does the loop use the pair (previous, event)?  Both must carry a timestamp.
HasTimestamps(event, previous) ==
    "timestamp" \in DOMAIN event /\ "timestamp" \in DOMAIN previous

\* A missing timestamp read as 0 (.get('timestamp', 0)) and no pair skipped
LoopBodyZeroFilled(self, kd, i, st) ==
    IntervalOrRaise(self, st, Ok(Get(kd[i + 1], "timestamp", 0) - Get(kd[i], "timestamp", 0)))

\* A skipped pair handled as an interval at or below BURST_MIN_SPEED: it closes
\* the open run (counting it when long enough) and starts an empty one.
LoopBodyResetOnSkip(self, kd, i, st) ==
    IF HasTimestamps(kd[i + 1], kd[i])
    THEN IntervalOrRaise(self, st, TimestampDiff(Subscript(kd[i + 1], "timestamp"),
                                                  Subscript(kd[i], "timestamp")))
    ELSE [st EXCEPT
            !.bursts = IF Len(st.current_burst) >= self.BURST_MIN_DURATION
                       THEN Append(@, st.current_burst) ELSE @,
            !.current_burst = <<>>]

\* One iteration of the loop: the pair (keystroke_data[i-1], keystroke_data[i])
\* of Python is (kd[i], kd[i+1]) here.
LoopBody(self, kd, i, st) ==
    IF HasTimestamps(kd[i + 1], kd[i])
    THEN IntervalOrRaise(self, st, TimestampDiff(Subscript(kd[i + 1], "timestamp"),
                                                  Subscript(kd[i], "timestamp")))
    ELSE st

\* for i in range(1, len(keystroke_data)), from iteration i on
RECURSIVE Loop(_, _, _, _)
Loop(self, kd, i, st) ==
    IF i >= Len(kd) \/ st.exc # NoException THEN st
    ELSE Loop(self, kd, i + 1, LoopBody(self, kd, i, st))

SlowStep(self, speed, rest) ==
    IF speed.exc # NoException THEN Raise(speed.exc)
    ELSE IF rest.exc # NoException THEN rest
    ELSE Ok((IF speed.val < self.SLOW_KEYSTROKE_THRESHOLD * Unit THEN 1 ELSE 0) + rest.val)

\* sum(1 for interval in intervals if (60 / interval if interval > 0 else 0) < SLOW)
RECURSIVE CountSlow(_, _)
CountSlow(self, intervals) ==
    IF intervals = <<>> THEN Ok(0)
    ELSE SlowStep(self, current_speed(Head(intervals)), CountSlow(self, Tail(intervals)))

\* without the final min(100, consistency)
ConsistencyNoUpperClamp(cv100) ==
    IF cv100.exc # NoException THEN Raise(cv100.exc)
    ELSE Ok(Max(0, 100 * Unit - cv100.val))

\* consistency = max(0, 100 - (cv * 100)); return min(100, consistency)
ConsistencyOf(cv100) ==
    IF cv100.exc # NoException THEN Raise(cv100.exc)
    ELSE Ok(Min(100 * Unit, Max(0, 100 * Unit - cv100.val)))

\* With n intervals of sum s and sum of squares q, the mean is s/n, the variance
\* (n*q - s^2)/n^2 and the coefficient of variation std_dev/mean is
\* sqrt(n*q - s^2)/s; the square root is rounded down to a whole number,
\* which keeps rhythm_consistency within 0.06 of the float the code computes
\* on every sampled event sequence.
RhythmOf(n, s, q, avg_interval) ==
    IF avg_interval.exc # NoException THEN Raise(avg_interval.exc)
    ELSE IF s = 0 THEN Ok(0)
    ELSE ConsistencyOf(TrueDiv(100 * ISqrt(n * q - s * s), s))

\* `if len(intervals) < 2` in place of `< 3`
RhythmFromTwoIntervals(intervals) ==
    IF Len(intervals) < 2 THEN Ok(50 * Unit)
    ELSE RhythmOf(Len(intervals), Sum(intervals), SumSq(intervals), Mean(intervals))

_calculate_rhythm_consistency(intervals) ==
    IF Len(intervals) < 3 THEN Ok(50 * Unit)
    ELSE RhythmOf(Len(intervals), Sum(intervals), SumSq(intervals), Mean(intervals))

\* The dict _analyze_typing_patterns returns after its loop.
PatternsDict(pauses, bursts, slow, avg, rhythm) ==
    IF slow.exc # NoException THEN Raise(slow.exc)
    ELSE IF avg.exc # NoException THEN Raise(avg.exc)
    ELSE IF rhythm.exc # NoException THEN Raise(rhythm.exc)
    ELSE Ok([ pause_count        |-> Len(pauses),
              avg_pause_duration |-> avg.val,
              burst_count        |-> Len(bursts),
              slow_phases        |-> slow.val,
              rhythm_consistency |-> rhythm.val ])

\* The statements after the loop, from the loop's final state st.
AfterLoop(self, st) ==
    IF st.exc # NoException THEN Raise(st.exc)
    ELSE PatternsDict(st.pauses,
                      IF Len(st.current_burst) >= self.BURST_MIN_DURATION
                      THEN Append(st.bursts, st.current_burst) ELSE st.bursts,
                      CountSlow(self, st.intervals),
                      IF st.pauses # <<>> THEN Mean(st.pauses) ELSE Ok(0),
                      _calculate_rhythm_consistency(st.intervals))

_analyze_typing_patterns(self, kd) ==
    IF Len(kd) < 2
    THEN Ok([ pause_count |-> 0, avg_pause_duration |-> 0, burst_count |-> 0, slow_phases |-> 0 ])
    ELSE AfterLoop(self, Loop(self, kd, 1, LoopStart))

\* max(0, min(100, base_score))
Clamp(base_score) == Max(0, Min(100 * Unit, base_score))

\* the pause penalty without its cap of 30
FocusUncappedPenalty(basic_metrics, patterns) ==
    Clamp(70 * Unit - Get(basic_metrics, "correction_rate", 0) * 2
          - Get(patterns, "pause_count", 0) * 5 * Unit
          + (Get(patterns, "rhythm_consistency", 50 * Unit) * 3) \div 10 - 15 * Unit)

_calculate_focus_score(basic_metrics, patterns) ==
    LET base_score0        == 70 * Unit
        correction_penalty == Get(basic_metrics, "correction_rate", 0) * 2
        base_score1        == base_score0 - correction_penalty
        pause_penalty      == Min(Get(patterns, "pause_count", 0) * 5 * Unit, 30 * Unit)
        base_score2        == base_score1 - pause_penalty
        consistency_bonus  == (Get(patterns, "rhythm_consistency", 50 * Unit) * 3) \div 10
        base_score3        == base_score2 + consistency_bonus - 15 * Unit
    IN  Clamp(base_score3)

_calculate_stress_score(basic_metrics, patterns) ==
    LET base_score0          == 20 * Unit
        pause_stress         == Min(Get(patterns, "avg_pause_duration", 0) * 5, 25 * Unit)
        base_score1          == base_score0 + pause_stress
        inconsistency_stress == ((100 * Unit - Get(patterns, "rhythm_consistency", 50 * Unit)) * 3) \div 10
        base_score2          == base_score1 + inconsistency_stress
        speed                == Get(basic_metrics, "avg_keystroke_speed", 40 * Unit)
        base_score3          == IF speed < 15 * Unit \/ speed > 130 * Unit
                                THEN base_score2 + 10 * Unit ELSE base_score2
    IN  Clamp(base_score3)

_calculate_confidence_score(basic_metrics, patterns) ==
    LET base_score0      == 50 * Unit
        burst_bonus      == Get(patterns, "burst_count", 0) * 15 * Unit
        base_score1      == base_score0 + burst_bonus
        correction_bonus == Max(0, 10 * Unit - Get(basic_metrics, "correction_rate", 0)) * 3
        base_score2      == base_score1 + correction_bonus
        rhythm_bonus     == (Get(patterns, "rhythm_consistency", 50 * Unit) * 4) \div 10
        base_score3      == base_score2 + rhythm_bonus - 20 * Unit
        speed            == Get(basic_metrics, "avg_keystroke_speed", 40 * Unit)
        base_score4      == IF 40 * Unit <= speed /\ speed <= 80 * Unit
                            THEN base_score3 + 15 * Unit ELSE base_score3
    IN  Clamp(base_score4)

\* the last of the highest scores instead of the first (>= in place of >)
ArgMaxLast(focus_score, stress_score, confidence_score) ==
    IF confidence_score >= Max(focus_score, stress_score) THEN "confidence"
    ELSE IF stress_score >= focus_score THEN "stress" ELSE "focus"

\* max(scores, key=scores.get) over {'focus': .., 'stress': .., 'confidence': ..}:
\* the first key, in insertion order, whose value no later key exceeds strictly
ArgMax(focus_score, stress_score, confidence_score) ==
    LET best1 == "focus"
        val1  == focus_score
        best2 == IF stress_score > val1 THEN "stress" ELSE best1
        val2  == IF stress_score > val1 THEN stress_score ELSE val1
    IN  IF confidence_score > val2 THEN "confidence" ELSE best2

\* The three scores and the dominant mood.
MoodDict(focus_score, stress_score, confidence_score) ==
    [ focus_score      |-> focus_score,
      stress_score     |-> stress_score,
      confidence_score |-> confidence_score,
      dominant_mood    |-> IF Max(focus_score, Max(stress_score, confidence_score)) < 60 * Unit
                           THEN "neutral"
                           ELSE ArgMax(focus_score, stress_score, confidence_score) ]

_calculate_mood_scores(basic_metrics, patterns) ==
    MoodDict(_calculate_focus_score(basic_metrics, patterns),
             _calculate_stress_score(basic_metrics, patterns),
             _calculate_confidence_score(basic_metrics, patterns))

\* {**basic_metrics, **patterns, **mood_scores}
Combine(basic_metrics, patterns, mood_scores) ==
    Merge(Merge(basic_metrics, patterns), mood_scores)

\* Lines 36-51 of analyze_typing_session, from the outcomes of the first two stages.
Analysis(basic_metrics, patterns) ==
    IF basic_metrics.exc # NoException
    THEN [ exc |-> basic_metrics.exc, ret |-> <<>>,
           stages |-> <<"_calculate_basic_metrics">> ]
    ELSE IF patterns.exc # NoException
    THEN [ exc |-> patterns.exc, ret |-> <<>>,
           stages |-> <<"_calculate_basic_metrics", "_analyze_typing_patterns">> ]
    ELSE [ exc |-> NoException,
           ret |-> Combine(basic_metrics.val, patterns.val,
                           _calculate_mood_scores(basic_metrics.val, patterns.val)),
           stages |-> <<"_calculate_basic_metrics", "_analyze_typing_patterns",
                        "_calculate_mood_scores">> ]

\* total_time < 0 in place of total_time <= 0
IsDefaultCaseStrict(kd, time) == kd = <<>> \/ time < 0

\* if not keystroke_data or total_time <= 0
IsDefaultCase(kd, time) == kd = <<>> \/ time <= 0

\* The body of analyze_typing_session: the value it returns (ret) or the
\* exception it raises (exc), and the private methods it runs (stages).
AnalysisOf(self, kd, text, time) ==
    IF IsDefaultCase(kd, time)
    THEN [ exc |-> NoException, ret |-> _get_default_analysis,
           stages |-> <<"_get_default_analysis">> ]
    ELSE Analysis(_calculate_basic_metrics(kd, text, time), _analyze_typing_patterns(self, kd))

\* a call that raises BURST_MIN_DURATION by one
SelfAfterDrift(self) == [self EXCEPT !.BURST_MIN_DURATION = @ + 1]

\* The instance fields after a call: the method assigns no field of self.
SelfAfter(self) == self

\* The caller's list after a call: the method does not modify it.
ListAfter(kd) == kd

\* What a call leaves behind: its return value or exception, the instance
\* fields and the caller's list.
Outcome(a, self, kd) ==
    [ exc |-> a.exc, ret |-> a.ret, stages |-> a.stages,
      self |-> SelfAfter(self), keystroke_data |-> ListAfter(kd) ]

analyze_typing_session(self, kd, text, time) ==
    Outcome(AnalysisOf(self, kd, text, time), self, kd)

---------------------------------------------------------------------------
(* The program: a client collects keystroke events and calls the shared analyzer *)

\* The timestamp of the last event that has one (0 before the first).
RECURSIVE LastTimestamp(_)
LastTimestamp(kd) ==
    IF kd = <<>> THEN 0
    ELSE IF "timestamp" \in DOMAIN kd[Len(kd)] THEN kd[Len(kd)].timestamp
    ELSE LastTimestamp(SubSeq(kd, 1, Len(kd) - 1))

\* The event a sample stands for after the events kd.
EventOf(sample, kd) ==
    IF "step" \in DOMAIN sample
    THEN [key |-> sample.key, timestamp |-> LastTimestamp(kd) + sample.step]
    ELSE [key |-> sample.key]

NoResult == [returned |-> FALSE]

NoScores == [scored |-> FALSE]

SessionInit ==
    /\ analyzer = TypingAnalyzer
    /\ keystroke_data = <<>>
    /\ text_content = <<>>
    /\ total_time = 0
    /\ result = NoResult
    /\ stages = <<>>
    /\ pc = "typing"

Init ==
    /\ SessionInit
    /\ scorer_basic = <<>>
    /\ scorer_patterns = <<>>
    /\ scorer_moods = NoScores

\* The client records one more keystroke event.
RecordKeystroke ==
    /\ pc = "typing"
    /\ Len(keystroke_data) < MaxEvents
    /\ \E sample \in EventSamples :
           keystroke_data' = Append(keystroke_data, EventOf(sample, keystroke_data))
    /\ UNCHANGED <<analyzer, text_content, total_time, result, stages, pc>>
    /\ UNCHANGED scorer_vars

\* analyzer.analyze_typing_session(keystroke_data, text_content, total_time)
\* The state after the call analyze_typing_session(keystroke_data, text, time)
\* on the shared instance.
Call(text, time) ==
    \E out \in {analyze_typing_session(analyzer, keystroke_data, text, time)} :
        /\ analyzer' = out.self
        /\ keystroke_data' = out.keystroke_data
        /\ text_content' = text
        /\ total_time' = time
        /\ stages' = out.stages
        /\ result' = IF out.exc = NoException THEN out.ret ELSE [raised |-> out.exc]
        /\ pc' = IF out.exc # NoException THEN "raised"
                 ELSE IF pc = "typing" THEN "returned" ELSE "repeated"
        /\ UNCHANGED scorer_vars

\* The first call of a session, on the events recorded so far.
AnalyzeTypingSession ==
    /\ pc = "typing"
    /\ \E call \in CallSamples : Call(call.text, call.time)

\* The same call again, with identical arguments.
AnalyzeAgain ==
    /\ pc = "returned"
    /\ Call(text_content, total_time)

\* The next session starts with an empty event list; the analyzer instance stays.
NewSession ==
    /\ pc # "typing"
    /\ keystroke_data' = <<>>
    /\ text_content' = <<>>
    /\ total_time' = 0
    /\ result' = NoResult
    /\ stages' = <<>>
    /\ pc' = "typing"
    /\ UNCHANGED analyzer
    /\ UNCHANGED scorer_vars

Next == RecordKeystroke \/ AnalyzeTypingSession \/ AnalyzeAgain \/ NewSession

Spec == Init /\ [][Next]_vars

---------------------------------------------------------------------------
(* The mood scorer alone, on basic-metrics and pattern-metrics dicts *)

\* correction_rate values, in thousandths of a percent
RateSamples == {0, 5 * Unit, 10 * Unit, 12 * Unit + 500, 50 * Unit, 100 * Unit}

\* avg_keystroke_speed values, in thousandths of a WPM
SpeedSamples == {0, 15 * Unit - 1, 15 * Unit, 40 * Unit - 1, 40 * Unit, 60 * Unit,
                 80 * Unit, 80 * Unit + 1, 130 * Unit, 130 * Unit + 1}

PauseCountSamples == {0, 1, 6, 7}

\* avg_pause_duration values, in thousandths of a second
PauseDurationSamples == {0, 2 * Unit + 1, 4 * Unit, 5 * Unit, 6 * Unit}

BurstCountSamples == {0, 1, 3}

\* rhythm_consistency values, in thousandths
RhythmSamples == {0, 13 * Unit + 333, 50 * Unit, 90 * Unit, 100 * Unit}

BasicSamples ==
    { [ total_keystrokes |-> 4, backspace_count |-> 0,
        avg_keystroke_speed |-> v, correction_rate |-> c ] :
          v \in SpeedSamples, c \in RateSamples }
    \cup { [ correction_rate |-> c ] : c \in RateSamples }
    \cup { [ avg_keystroke_speed |-> v ] : v \in SpeedSamples }

\* Full pattern dicts, the dict of the fewer-than-2-events case (line 72), and
\* dicts that lack more of the keys.
PatternSamples ==
    { [ pause_count |-> p, avg_pause_duration |-> d, burst_count |-> b,
        slow_phases |-> p, rhythm_consistency |-> r ] :
          p \in PauseCountSamples, d \in PauseDurationSamples,
          b \in BurstCountSamples, r \in RhythmSamples }
    \cup { [ pause_count |-> 0, avg_pause_duration |-> 0, burst_count |-> 0, slow_phases |-> 0 ] }
    \cup { [ pause_count |-> p, burst_count |-> b, rhythm_consistency |-> r ] :
          p \in PauseCountSamples, b \in BurstCountSamples, r \in RhythmSamples }
    \cup { [ slow_phases |-> 0 ] }

InitScore ==
    /\ SessionInit
    /\ scorer_basic \in BasicSamples
    /\ scorer_patterns \in PatternSamples
    /\ scorer_moods = NoScores

\* mood_scores = self._calculate_mood_scores(basic_metrics, patterns)
ScoreMood ==
    /\ scorer_moods = NoScores
    /\ scorer_moods' = _calculate_mood_scores(scorer_basic, scorer_patterns)
    /\ UNCHANGED <<scorer_basic, scorer_patterns>>
    /\ UNCHANGED session_vars

NextScore == ScoreMood

SpecScore == InitScore /\ [][NextScore]_vars

---------------------------------------------------------------------------
(* Sessions around the pause threshold: steps of 2000 ms, 2001 ms and 3000 ms *)

\* Events with intervals at, just above and well above LONG_PAUSE_THRESHOLD, a
\* short interval, and an event without a timestamp.
PauseSamples ==
    { [key |-> "a", step |-> 500],  [key |-> "a", step |-> 2000],
      [key |-> "a", step |-> 2001], [key |-> "a", step |-> 3000],
      [key |-> "a"] }

\* The client records one more keystroke event, after a short or a long wait.
RecordPauseKeystroke ==
    /\ pc = "typing"
    /\ Len(keystroke_data) < MaxEvents
    /\ \E sample \in PauseSamples :
           keystroke_data' = Append(keystroke_data, EventOf(sample, keystroke_data))
    /\ UNCHANGED <<analyzer, text_content, total_time, result, stages, pc>>
    /\ UNCHANGED scorer_vars

NextPause == RecordPauseKeystroke \/ AnalyzeTypingSession \/ AnalyzeAgain \/ NewSession

SpecPause == Init /\ [][NextPause]_vars

---------------------------------------------------------------------------
(* Sessions of fast typing with events that lack a timestamp *)

\* A fast interval (120 WPM), one at exactly BURST_MIN_SPEED (100 WPM), and an
\* event without a timestamp.
BurstSamples ==
    { [key |-> "a", step |-> 500], [key |-> "a", step |-> 600], [key |-> "a"] }

\* The client records one more keystroke event of a fast session.
RecordBurstKeystroke ==
    /\ pc = "typing"
    /\ Len(keystroke_data) < MaxBurstEvents
    /\ \E sample \in BurstSamples :
           keystroke_data' = Append(keystroke_data, EventOf(sample, keystroke_data))
    /\ UNCHANGED <<analyzer, text_content, total_time, result, stages, pc>>
    /\ UNCHANGED scorer_vars

NextBurst == RecordBurstKeystroke \/ AnalyzeTypingSession \/ AnalyzeAgain \/ NewSession

SpecBurst == Init /\ [][NextBurst]_vars

---------------------------------------------------------------------------
(* Properties of analyze_typing_session *)

\* The last call returned a record.
Returned == pc \in {"returned", "repeated"}

\* The last call returned a record and was given events and a positive time.
NonDefault == Returned /\ keystroke_data # <<>> /\ total_time > 0

\* The fixed default record, field by field.
FixedDefaultRecord ==
    [ total_keystrokes |-> 0, backspace_count |-> 0, avg_keystroke_speed |-> 0,
      correction_rate |-> 0, pause_count |-> 0, avg_pause_duration |-> 0,
      burst_count |-> 0, slow_phases |-> 0, rhythm_consistency |-> 50 * Unit,
      focus_score |-> 50 * Unit, stress_score |-> 50 * Unit,
      confidence_score |-> 50 * Unit, dominant_mood |-> "neutral" ]

AllStages == <<"_calculate_basic_metrics", "_analyze_typing_patterns", "_calculate_mood_scores">>

\* C1's case: events, an empty text and a positive total_time.
C1_Case == Returned /\ keystroke_data # <<>> /\ text_content = <<>> /\ total_time > 0

\* C1 as stated: a call with a non-empty event sequence, an empty text and a
\* positive total_time returns the fixed default record.
C1_Original == C1_Case => result = FixedDefaultRecord

\* C1 amended: a call with a non-empty event sequence, an empty text and a
\* positive total_time runs the three stages and returns a non-default record
\* with total_keystrokes the number of events and avg_keystroke_speed 0; an
\* empty text does not select the default record.
C1_EmptyTextIsAnalyzed ==
    C1_Case => /\ result # FixedDefaultRecord
               /\ result.total_keystrokes = Len(keystroke_data)
               /\ result.avg_keystroke_speed = 0
               /\ stages = AllStages

C1_Witness == C1_Case /\ Len(keystroke_data) = 3 /\ result.total_keystrokes = 3

\* C2: whenever the event sequence is empty or total_time <= 0, for any text, the
\* call returns the fixed default record of 13 fields and runs none of the
\* extractor, pattern and scoring stages.
C2_DefaultRecord ==
    (pc # "typing" /\ (keystroke_data = <<>> \/ total_time <= 0))
        => /\ Returned
           /\ result = FixedDefaultRecord
           /\ Cardinality(DOMAIN result) = 13
           /\ stages = <<"_get_default_analysis">>

C2_Witness ==
    /\ Returned
    /\ Len(keystroke_data) = 3
    /\ total_time = 0
    /\ text_content # <<>>
    /\ result = FixedDefaultRecord

\* x is a score or a percentage: between 0 and 100, in thousandths
InPercentRange(x) == 0 <= x /\ x <= 100 * Unit

\* The three scores of the returned record lie in [0,100], and so does
\* correction_rate when total_keystrokes > 0.
ScoresInRange ==
    /\ InPercentRange(result.focus_score)
    /\ InPercentRange(result.stress_score)
    /\ InPercentRange(result.confidence_score)
    /\ result.total_keystrokes > 0 => InPercentRange(result.correction_rate)

\* C3 as stated: for every input the returned record has the three scores and
\* rhythm_consistency in [0,100], and correction_rate in [0,100] when
\* total_keystrokes > 0.
C3_Original ==
    Returned => /\ ScoresInRange
                /\ "rhythm_consistency" \in DOMAIN result
                /\ InPercentRange(result.rhythm_consistency)

\* C3 amended: for every input the returned record has the three scores in
\* [0,100], correction_rate in [0,100] when total_keystrokes > 0, and
\* rhythm_consistency in [0,100] whenever the record carries it; the record
\* lacks rhythm_consistency exactly for a non-default analysis of one event.
C3_RangesWhenPresent ==
    Returned => /\ ScoresInRange
                /\ "rhythm_consistency" \in DOMAIN result
                       => InPercentRange(result.rhythm_consistency)
                /\ "rhythm_consistency" \notin DOMAIN result
                       <=> (Len(keystroke_data) = 1 /\ total_time > 0)

\* Timestamps that go back, a mean interval below 0, and a consistency of 100.
C3_Witness ==
    /\ NonDefault
    /\ Len(keystroke_data) = 5
    /\ \E i \in 1..4 : /\ "timestamp" \in DOMAIN keystroke_data[i]
                       /\ "timestamp" \in DOMAIN keystroke_data[i + 1]
                       /\ keystroke_data[i + 1].timestamp < keystroke_data[i].timestamp
    /\ "timestamp" \notin DOMAIN keystroke_data[5]
    /\ result.backspace_count = 1
    /\ result.rhythm_consistency = 100 * Unit

\* The positions i whose pair (event i, event i+1) has both timestamps.
ValidPairs(kd) ==
    { i \in 1..(Len(kd) - 1) : "timestamp" \in DOMAIN kd[i] /\ "timestamp" \in DOMAIN kd[i + 1] }

\* C4's case: a non-default analysis with fewer than 3 valid intervals.
C4_Case == NonDefault /\ Cardinality(ValidPairs(keystroke_data)) < 3

\* C4 as stated: every non-default analysis with fewer than 3 valid intervals,
\* a single event included, returns rhythm_consistency exactly 50.
C4_Original ==
    C4_Case => /\ "rhythm_consistency" \in DOMAIN result
               /\ result.rhythm_consistency = 50 * Unit

\* C4 amended: every non-default analysis of at least two events with fewer
\* than 3 valid intervals returns rhythm_consistency exactly 50; the analysis
\* of a single event returns a record without rhythm_consistency, its scores
\* computed with 50 in its place.
C4_RhythmDefault ==
    C4_Case =>
        IF Len(keystroke_data) >= 2
        THEN /\ "rhythm_consistency" \in DOMAIN result
             /\ result.rhythm_consistency = 50 * Unit
        ELSE /\ "rhythm_consistency" \notin DOMAIN result
             /\ result.focus_score = 70 * Unit - 2 * result.correction_rate
                    \/ (result.focus_score = 0 /\ result.correction_rate >= 35 * Unit)

\* Five events, timestamps missing, two valid intervals left.
C4_Witness ==
    /\ C4_Case
    /\ Len(keystroke_data) = 5
    /\ Cardinality(ValidPairs(keystroke_data)) = 2
    /\ result.rhythm_consistency = 50 * Unit

\* The scorer has returned.
Scored == scorer_moods # NoScores

HighestScore ==
    Max(scorer_moods.focus_score, Max(scorer_moods.stress_score, scorer_moods.confidence_score))

\* C5: dominant_mood is 'neutral' exactly when the highest of the three scores
\* is below 60, ties included; otherwise it is the first label in the order
\* focus, stress, confidence whose score is the highest, so stress or
\* confidence is chosen only with a score strictly above every earlier label's.
C5_DominantMood ==
    Scored =>
        /\ scorer_moods.dominant_mood = "neutral" <=> HighestScore < 60 * Unit
        /\ HighestScore >= 60 * Unit =>
               scorer_moods.dominant_mood =
                   IF scorer_moods.focus_score = HighestScore THEN "focus"
                   ELSE IF scorer_moods.stress_score = HighestScore THEN "stress"
                   ELSE "confidence"
        /\ scorer_moods.dominant_mood = "stress" =>
               scorer_moods.stress_score > scorer_moods.focus_score
        /\ scorer_moods.dominant_mood = "confidence" =>
               /\ scorer_moods.confidence_score > scorer_moods.focus_score
               /\ scorer_moods.confidence_score > scorer_moods.stress_score

\* Stress and confidence tied at the highest score, at least 60: stress wins.
C5_Witness ==
    /\ Scored
    /\ scorer_moods.stress_score = scorer_moods.confidence_score
    /\ scorer_moods.stress_score >= 60 * Unit
    /\ scorer_moods.focus_score < scorer_moods.stress_score
    /\ scorer_moods.dominant_mood = "stress"

\* clamp(x, 0, 100) in thousandths
Clamp0To100(x) == IF x < 0 THEN 0 ELSE IF x > 100 * Unit THEN 100 * Unit ELSE x

\* The scorer's inputs, an absent field read as its default.
InCorrectionRate == IF "correction_rate" \in DOMAIN scorer_basic THEN scorer_basic.correction_rate ELSE 0

InSpeed == IF "avg_keystroke_speed" \in DOMAIN scorer_basic THEN scorer_basic.avg_keystroke_speed ELSE 40 * Unit

InPauseCount == IF "pause_count" \in DOMAIN scorer_patterns THEN scorer_patterns.pause_count ELSE 0

InPauseDuration == IF "avg_pause_duration" \in DOMAIN scorer_patterns THEN scorer_patterns.avg_pause_duration ELSE 0

InBurstCount == IF "burst_count" \in DOMAIN scorer_patterns THEN scorer_patterns.burst_count ELSE 0

InRhythm == IF "rhythm_consistency" \in DOMAIN scorer_patterns THEN scorer_patterns.rhythm_consistency ELSE 50 * Unit

\* C10: for every basic-metrics and pattern-metrics record the scorer returns
\*   focus = clamp(70 - 2*cr - min(5*pauses, 30) + 0.3*rhythm - 15, 0, 100),
\*   stress = clamp(20 + min(5*avg_pause, 25) + 0.3*(100 - rhythm)
\*                  + (10 if speed < 15 or speed > 130 else 0), 0, 100),
\*   confidence = clamp(50 + 15*bursts + 3*max(0, 10 - cr) + 0.4*rhythm - 20
\*                  + (15 if 40 <= speed <= 80 else 0), 0, 100),
\* an absent pattern field read as pause_count 0, avg_pause_duration 0,
\* burst_count 0, rhythm_consistency 50; correction_rate 0, pause_count 0,
\* burst_count 3, rhythm_consistency 90 and speed 60 give confidence_score 100
\* and dominant_mood 'confidence'.
C10_ScoreFormulas ==
    Scored =>
        /\ scorer_moods.focus_score =
               Clamp0To100(70 * Unit - 2 * InCorrectionRate
                           - (IF 5 * InPauseCount < 30 THEN 5 * InPauseCount ELSE 30) * Unit
                           + (3 * InRhythm) \div 10 - 15 * Unit)
        /\ scorer_moods.stress_score =
               Clamp0To100(20 * Unit
                           + (IF 5 * InPauseDuration < 25 * Unit THEN 5 * InPauseDuration ELSE 25 * Unit)
                           + (3 * (100 * Unit - InRhythm)) \div 10
                           + (IF InSpeed < 15 * Unit \/ InSpeed > 130 * Unit THEN 10 * Unit ELSE 0))
        /\ scorer_moods.confidence_score =
               Clamp0To100(50 * Unit + 15 * InBurstCount * Unit
                           + 3 * (IF 10 * Unit - InCorrectionRate > 0 THEN 10 * Unit - InCorrectionRate ELSE 0)
                           + (4 * InRhythm) \div 10 - 20 * Unit
                           + (IF 40 * Unit <= InSpeed /\ InSpeed <= 80 * Unit THEN 15 * Unit ELSE 0))
        /\ ( /\ InCorrectionRate = 0 /\ InPauseCount = 0 /\ InBurstCount = 3
             /\ InRhythm = 90 * Unit /\ InSpeed = 60 * Unit )
               => /\ scorer_moods.confidence_score = 100 * Unit
                  /\ scorer_moods.dominant_mood = "confidence"

\* The example of the claim, on a pattern record without avg_pause_duration.
C10_Witness ==
    /\ Scored
    /\ "correction_rate" \in DOMAIN scorer_basic /\ scorer_basic.correction_rate = 0
    /\ "avg_keystroke_speed" \in DOMAIN scorer_basic /\ scorer_basic.avg_keystroke_speed = 60 * Unit
    /\ scorer_patterns = [pause_count |-> 0, burst_count |-> 3, rhythm_consistency |-> 90 * Unit]
    /\ scorer_moods.confidence_score = 100 * Unit
    /\ scorer_moods.focus_score = 82 * Unit
    /\ scorer_moods.dominant_mood = "confidence"

\* The valid intervals in ms, in order: the timestamp differences of the
\* pairs of consecutive events that both carry a timestamp, from pair i on.
RECURSIVE ValidIntervalsFrom(_, _)
ValidIntervalsFrom(kd, i) ==
    IF i >= Len(kd) THEN <<>>
    ELSE (IF i \in ValidPairs(kd)
          THEN <<kd[i + 1].timestamp - kd[i].timestamp>> ELSE <<>>)
         \o ValidIntervalsFrom(kd, i + 1)

ValidIntervals == ValidIntervalsFrom(keystroke_data, 1)

\* 60/interval, taken as 0 when interval <= 0, is strictly above 100 WPM
\* (the interval is ms/1000 seconds).
IsFast(ms) == ms > 0 /\ 60 * 1000 > 100 * ms

\* 60/interval, taken as 0 when interval <= 0, is below 30 WPM.
IsSlow(ms) == ms <= 0 \/ 60 * 1000 < 30 * ms

\* The maximal runs of at least 3 consecutive fast intervals of v, as pairs
\* <<first, last>> of positions.
BurstRuns(v) ==
    { r \in (1..Len(v)) \X (1..Len(v)) :
        /\ r[2] - r[1] + 1 >= 3
        /\ \A i \in r[1]..r[2] : IsFast(v[i])
        /\ r[1] = 1 \/ ~IsFast(v[r[1] - 1])
        /\ r[2] = Len(v) \/ ~IsFast(v[r[2] + 1]) }

\* C6: burst_count is the number of maximal runs of at least 3 consecutive valid
\* intervals with instantaneous speed strictly above 100: 3 fast intervals and
\* then one at or below 100 give 1, a run of 2 gives 0, a run of at least 3
\* still open at the end counts once, and an interval at or below the
\* threshold always ends the run.
C6_BurstCount ==
    NonDefault => result.burst_count = Cardinality(BurstRuns(ValidIntervals))

\* Three fast intervals closed by one at exactly 100 WPM (600 ms).
C6_Witness ==
    /\ NonDefault
    /\ ValidIntervals = <<500, 500, 500, 600>>
    /\ result.burst_count = 1

\* What a freshly constructed analyzer returns for the arguments of the last call.
FreshResult ==
    analyze_typing_session(TypingAnalyzer, keystroke_data, text_content, total_time).ret

C8_Total ==
    /\ pc # "raised"
    /\ pc # "typing" => /\ "dominant_mood" \in DOMAIN result
                        /\ "total_keystrokes" \in DOMAIN result

\* Repeated timestamps (zero intervals), an event without a timestamp, and
\* three intervals whose mean is 0.
C8_Witness ==
    /\ NonDefault
    /\ Len(keystroke_data) = 5
    /\ Len(ValidIntervals) = 3
    /\ \E i \in 1..3 : ValidIntervals[i] = 0
    /\ Sum(ValidIntervals) = 0
    /\ result.rhythm_consistency = 0
    /\ result.pause_count = 0

\* The number of positions of v that satisfy P.
CountOf(v, P(_)) == Cardinality({ i \in 1..Len(v) : P(v[i]) })

\* interval > 2.0 seconds
IsPause(ms) == ms > 2 * 1000

\* C9: a pair in which either event lacks a timestamp contributes nothing:
\* pause_count, slow_phases, burst_count and rhythm_consistency are those of
\* the intervals of the pairs where both events carry a timestamp.
C9_SkippedPairs ==
    (NonDefault /\ Len(keystroke_data) >= 2) =>
        /\ result.pause_count = CountOf(ValidIntervals, IsPause)
        /\ result.slow_phases = CountOf(ValidIntervals, IsSlow)
        /\ result.burst_count = Cardinality(BurstRuns(ValidIntervals))
        /\ result.rhythm_consistency = _calculate_rhythm_consistency(ValidIntervals).val

\* Five events, the third without a timestamp: two valid intervals, one a pause.
C9_Witness ==
    /\ NonDefault
    /\ Len(keystroke_data) = 5
    /\ ValidPairs(keystroke_data) = {1, 4}
    /\ result.pause_count = 1
    /\ result.slow_phases = 1
    /\ result.burst_count = 0

\* The valid intervals longer than 2.0 seconds, in order.
PauseIntervals == SelectSeq(ValidIntervals, IsPause)

\* C11: pause_count is the number of valid intervals strictly greater than 2.0
\* seconds (an interval of exactly 2000 ms is not a pause, one of 2001 ms is),
\* and avg_pause_duration is the mean in seconds of exactly those intervals, or
\* 0 when there is none.
C11_PauseMetrics ==
    NonDefault =>
        /\ result.pause_count = Len(PauseIntervals)
        /\ result.pause_count =
               Cardinality({ i \in 1..Len(ValidIntervals) : ValidIntervals[i] >= 2001 })
        /\ result.avg_pause_duration =
               IF PauseIntervals = <<>> THEN 0
               ELSE Sum(PauseIntervals) \div Len(PauseIntervals)
        /\ (\A i \in 1..Len(ValidIntervals) : ValidIntervals[i] = 2000)
               => (result.pause_count = 0 /\ result.avg_pause_duration = 0)
        /\ (ValidIntervals # <<>> /\ \A i \in 1..Len(ValidIntervals) : ValidIntervals[i] = 2001)
               => /\ result.pause_count = Len(ValidIntervals)
                  /\ result.avg_pause_duration = 2001

\* Intervals of 0.5 s, exactly 2.0 s, 2.001 s and 3.0 s: two pauses of mean
\* 2.5005 s.
C11_Witness ==
    /\ NonDefault
    /\ ValidIntervals = <<500, 2000, 2001, 3000>>
    /\ result.pause_count = 2
    /\ result.avg_pause_duration = 2500

\* The locals of _analyze_typing_patterns after the first n iterations of its
\* loop over the events of the last call.
LoopAfter(n) == Loop(analyzer, SubSeq(keystroke_data, 1, n + 1), 1, LoopStart)

\* The pairs of consecutive events the loop skips.
SkippedPairs == (1..(Len(keystroke_data) - 1)) \ ValidPairs(keystroke_data)

\* C12: in _analyze_typing_patterns a pair whose events do not both carry a
\* timestamp leaves the open burst run unchanged, neither closing nor
\* resetting it: the fast intervals (speed > 100) before and after the skipped
\* pair accumulate into one run, which counts as one burst once it holds 3.
C12_SkippedPairKeepsRun ==
    (NonDefault /\ Len(keystroke_data) >= 2) =>
        /\ \A i \in SkippedPairs :
               /\ LoopAfter(i).current_burst = LoopAfter(i - 1).current_burst
               /\ LoopAfter(i).bursts = LoopAfter(i - 1).bursts
        /\ (Len(ValidIntervals) >= 3 /\ \A j \in 1..Len(ValidIntervals) : IsFast(ValidIntervals[j]))
               => result.burst_count = 1
        /\ result.burst_count = Len(LoopAfter(Len(keystroke_data) - 1).bursts)
               + (IF Len(LoopAfter(Len(keystroke_data) - 1).current_burst) >= 3 THEN 1 ELSE 0)

\* Six events, the fourth without a timestamp: two fast intervals before the
\* two skipped pairs and one after them make one burst.
C12_Witness ==
    /\ NonDefault
    /\ Len(keystroke_data) = 6
    /\ SkippedPairs = {3, 4}
    /\ ValidIntervals = <<500, 500, 500>>
    /\ Len(LoopAfter(4).current_burst) = 2
    /\ result.burst_count = 1

\* C13: the counts of every non-default result are consistent: pause_count <=
\* slow_phases (every pause is also a slow phase), all counts are
\* non-negative, 3 * burst_count + slow_phases <= total_keystrokes - 1 (burst
\* intervals and slow intervals are disjoint and there are at most
\* total_keystrokes - 1 valid intervals), and backspace_count <= total_keystrokes.
C13_CountConsistency ==
    NonDefault =>
        /\ result.pause_count <= result.slow_phases
        /\ result.pause_count >= 0
        /\ result.slow_phases >= 0
        /\ result.burst_count >= 0
        /\ result.backspace_count >= 0
        /\ result.total_keystrokes >= 0
        /\ 3 * result.burst_count + result.slow_phases <= result.total_keystrokes - 1
        /\ result.backspace_count <= result.total_keystrokes

\* Five events, one of them a Backspace: a burst of three fast intervals and
\* then a pause, so that both inequalities hold with equality.
C13_Witness ==
    /\ NonDefault
    /\ result.total_keystrokes = 5
    /\ result.burst_count = 1
    /\ result.pause_count = 1
    /\ result.slow_phases = 1
    /\ result.backspace_count = 1

====
